---- MODULE Spec2Model ----
(***************************************************************************)
(* Comment store of trip_helper: the Cloudflare Pages functions of         *)
(* functions/api/comments.js (two generations of the public handlers and   *)
(* two of the admin handlers, kept by their first source line: _L2, _L37,  *)
(* _L116, _L149, _L233, _L275, _L329, _L370) and the browser widget        *)
(* CommentSystem of js/comments.js.                                        *)
(*                                                                         *)
(* Environment: request bodies are JSON objects, ADMIN_KEY is configured   *)
(* and COMMENTS.get/put do not throw, so the handlers' catch blocks        *)
(* (status 500) are not entered.  Response headers are not modelled.       *)
(*                                                                         *)
(* Specifications: Spec (well-formed submits, moderation, reads),          *)
(* SpecValidate (submits of malformed bodies, directly and by the widget), *)
(* SpecSeq (sequential load on one page), SpecCap (the same with           *)
(* moderation and reads), SpecConc (submits whose get and put interleave). *)
(***************************************************************************)
EXTENDS Integers, Sequences, FiniteSets, TLC

(***************************************************************************)
(* Bounds of the model.                                                    *)
(***************************************************************************)
MaxClock == 2
MaxStored == 2
MaxSubmitted == 1
MaxSubmits == 105
MaxInflight == 2
MaxConcurrent == 3

(***************************************************************************)
(* JavaScript values: undefined, null and strings.                         *)
(***************************************************************************)
Undefined == [t |-> "undefined", v |-> ""]
Null == [t |-> "null", v |-> ""]
Str(s) == [t |-> "string", v |-> s]

\* ToBoolean: undefined, null and "" are falsy, every other string is truthy.
Truthy(x) == x.t = "string" /\ x.v # ""

\* a || b
OrElse(a, b) == IF Truthy(a) THEN a ELSE b

\* a === b (strict equality of the values above)
StrictEq(a, b) == a.t = b.t /\ a.v = b.v

(***************************************************************************)
(* Sequence helpers (Array.prototype.filter / find / findIndex / splice /  *)
(* unshift / slice).                                                       *)
(***************************************************************************)
Min(a, b) == IF a < b THEN a ELSE b

RECURSIVE FilterApproved(_)
FilterApproved(s) ==
  IF s = <<>> THEN <<>>
  ELSE IF Head(s).approved THEN <<Head(s)>> \o FilterApproved(Tail(s))
       ELSE FilterApproved(Tail(s))

\* findIndex(c => c.id === commentId), 1-based; 0 stands for -1 (not found)
FindIndex(s, commentId) ==
  IF \E i \in 1..Len(s) : StrictEq(s[i].id, commentId)
  THEN CHOOSE i \in 1..Len(s) :
         /\ StrictEq(s[i].id, commentId)
         /\ \A j \in 1..(i - 1) : ~StrictEq(s[j].id, commentId)
  ELSE 0

\* splice(index, 1)
Splice(s, k) == SubSeq(s, 1, k - 1) \o SubSeq(s, k + 1, Len(s))

\* unshift(c)
Unshift(s, c) == <<c>> \o s

\* slice(0, n)
Slice0(s, n) == SubSeq(s, 1, Min(n, Len(s)))

(***************************************************************************)
(* The key-value store COMMENTS: get(key) is null for a key never written, *)
(* otherwise the JSON text last put.  JSON text is kept as the value it    *)
(* encodes; every stored value is an array of objects of strings, booleans *)
(* and empty arrays, which JSON.stringify / JSON.parse carry unchanged.    *)
(***************************************************************************)
JSONstringify(x) == [t |-> "json", v |-> x]
JSONparse(s) == s.v

\* `comments:${page}`
KeyOf(page) == "comments:" \o page.v

PageNames == {"homepage", "general"}
Keys == {KeyOf(Str(p)) : p \in PageNames}

\* commentsJson ? JSON.parse(commentsJson) : []
ParseList(commentsJson) ==
  IF commentsJson.t = "json" THEN JSONparse(commentsJson) ELSE <<>>

\* the record of one COMMENTS.get(key), with the value it returned, and of one
\* COMMENTS.put(key, value)
Get(key, value) == [op |-> "get", key |-> key, value |-> value]
Put(key, value) == [op |-> "put", key |-> key, value |-> value]

VARIABLES
  store,         \* COMMENTS: key -> null or JSON text
  clock,         \* the last reading of Date.now() (milliseconds, offset)
  req,           \* the request handled last
  resp,          \* its response: [status, body]
  kvops,         \* the COMMENTS operations the last request issued, in order
  notification,  \* the widget's last notification
  inflight,      \* concurrent submits between their get and their put
  acked,         \* the concurrent submits answered with success, in order
  hist           \* the submits of the sequential load, in order

vars == <<store, clock, req, resp, kvops, notification, inflight, acked, hist>>

StoredList(page) == ParseList(store[KeyOf(page)])

TotalStored ==
  LET RECURSIVE Sum(_)
      Sum(S) == IF S = {} THEN 0
                ELSE LET k == CHOOSE k \in S : TRUE
                     IN Len(ParseList(store[k])) + Sum(S \ {k})
  IN Sum(Keys)

\* new Date().toISOString(): the instant, in a fixed text format
ToISOString(t) == "T" \o ToString(t)


(***************************************************************************)
(* Program constants.                                                      *)
(***************************************************************************)
\* comments.slice(0, 100)
Cap == 100

\* context.env.ADMIN_KEY, the configured admin secret
ADMIN_KEY == Str("s3cret")

\* `${x}` inside a template literal
Template(x) == IF x.t = "string" THEN x.v ELSE x.t

Response(status, body) == [status |-> status, body |-> body]

(***************************************************************************)
(* Public handlers, functions/api/comments.js.                             *)
(***************************************************************************)
\* mutant: the check forgets the message
MissingRequired_NoMessage(data) ==
  ~Truthy(data.name) \/ ~Truthy(data.email)

\* if (!data.name || !data.email || !data.message)
MissingRequired(data) ==
  ~Truthy(data.name) \/ ~Truthy(data.email) \/ ~Truthy(data.message)

\* const newComment = { id: Date.now().toString(), ... }
NewComment(data, t) ==
  [ id        |-> Str(ToString(t)),
    name      |-> data.name,
    email     |-> data.email,
    category  |-> OrElse(data.category, Str("General Feedback")),
    message   |-> data.message,
    timestamp |-> Str(ToISOString(t)),
    approved  |-> FALSE,
    replies   |-> <<>> ]

\* mutant: push instead of unshift
Prepended_Push(comments, newComment) == Slice0(comments \o <<newComment>>, Cap)

\* mutant: the cap is one short
Prepended_Cap99(comments, newComment) == Slice0(Unshift(comments, newComment), Cap - 1)

\* comments.unshift(newComment); ... JSON.stringify(comments.slice(0, 100))
Prepended(comments, newComment) == Slice0(Unshift(comments, newComment), Cap)

\* what the first public GET puts in the body: comments.filter(c => c.approved)
ListBody_L2(comments) ==
  [success |-> TRUE, comments |-> FilterApproved(comments)]

\* what the second public GET puts in the body: the parsed list itself
ListBody_L116(comments) ==
  [success |-> TRUE, comments |-> comments]

onRequestGet_L2(pageParam) ==
  LET page == OrElse(pageParam, Str("homepage"))
      comments == ParseList(store[KeyOf(page)])
  IN /\ resp' = Response(200, ListBody_L2(comments))
     /\ kvops' = <<Get(KeyOf(page), store[KeyOf(page)])>>
     /\ UNCHANGED <<store, clock>>

onRequestGet_L116(pageParam) ==
  LET page == OrElse(pageParam, Str("general"))
      comments == ParseList(store[KeyOf(page)])
  IN /\ resp' = Response(200, ListBody_L116(comments))
     /\ kvops' = <<Get(KeyOf(page), store[KeyOf(page)])>>
     /\ UNCHANGED <<store, clock>>

BadRequest ==
  /\ resp' = Response(400, [success |-> FALSE, error |-> "Missing required fields"])
  /\ kvops' = <<>>
  /\ UNCHANGED <<store, clock>>

SubmittedMessage == "Comment submitted successfully. It will appear after approval."

\* t is the reading of Date.now() taken while the comment is built
onRequestPost_L37(data, t) ==
  IF MissingRequired(data) THEN BadRequest
  ELSE LET page == OrElse(data.page, Str("homepage"))
           comments == ParseList(store[KeyOf(page)])
           newComment == NewComment(data, t)
       IN /\ store' = [store EXCEPT
                         ![KeyOf(page)] = JSONstringify(Prepended(comments, newComment))]
          /\ clock' = t
          /\ kvops' = <<Get(KeyOf(page), store[KeyOf(page)]),
                        Put(KeyOf(page), store'[KeyOf(page)])>>
          /\ resp' = Response(200, [success |-> TRUE, message |-> SubmittedMessage])

onRequestPost_L149(data, t) ==
  IF MissingRequired(data) THEN BadRequest
  ELSE LET page == OrElse(data.page, Str("general"))
           comments == ParseList(store[KeyOf(page)])
           newComment == NewComment(data, t)
       IN /\ store' = [store EXCEPT
                         ![KeyOf(page)] = JSONstringify(Prepended(comments, newComment))]
          /\ clock' = t
          /\ kvops' = <<Get(KeyOf(page), store[KeyOf(page)]),
                        Put(KeyOf(page), store'[KeyOf(page)])>>
          /\ resp' = Response(200, [success |-> TRUE, message |-> SubmittedMessage,
                                    comment |-> newComment])

(***************************************************************************)
(* Admin handlers, functions/api/admin-comments.js.                        *)
(***************************************************************************)
\* mutant: only a key that is present is compared
KeyRejected_Lax(adminKey) == Truthy(adminKey) /\ ~StrictEq(adminKey, ADMIN_KEY)

\* if (adminKey !== ADMIN_KEY)
KeyRejected(adminKey) == ~StrictEq(adminKey, ADMIN_KEY)

Unauthorized ==
  /\ resp' = Response(401, [success |-> FALSE, error |-> "Unauthorized"])
  /\ kvops' = <<>>
  /\ UNCHANGED <<store, clock>>

\* mutant: the approved comment is taken out and put back at the head
Approve_ToFront(comments, commentId) ==
  LET k == FindIndex(comments, commentId)
  IN IF k = 0 THEN comments
     ELSE <<[comments[k] EXCEPT !.approved = TRUE]>> \o Splice(comments, k)

\* comments.find(c => c.id === commentId); if (comment) comment.approved = true
Approve(comments, commentId) ==
  LET k == FindIndex(comments, commentId)
  IN IF k = 0 THEN comments
     ELSE [comments EXCEPT ![k].approved = TRUE]

\* mutant: every comment with the id is removed, as by
\* comments.filter(c => c.id !== commentId)
RECURSIVE Delete_AllMatches(_, _)
Delete_AllMatches(comments, commentId) ==
  IF comments = <<>> THEN <<>>
  ELSE IF StrictEq(Head(comments).id, commentId)
       THEN Delete_AllMatches(Tail(comments), commentId)
       ELSE <<Head(comments)>> \o Delete_AllMatches(Tail(comments), commentId)

\* comments.findIndex(c => c.id === commentId); if (index !== -1) comments.splice(index, 1)
Delete(comments, commentId) ==
  LET k == FindIndex(comments, commentId)
  IN IF k = 0 THEN comments ELSE Splice(comments, k)

\* the list after the if / else if on data.action
Moderated(comments, commentId, action) ==
  IF StrictEq(action, Str("approve")) THEN Approve(comments, commentId)
  ELSE IF StrictEq(action, Str("delete")) THEN Delete(comments, commentId)
  ELSE comments

AdminList(defaultPage, keyParam, pageParam) ==
  IF KeyRejected(keyParam) THEN Unauthorized
  ELSE LET page == OrElse(pageParam, Str(defaultPage))
           comments == ParseList(store[KeyOf(page)])
       IN /\ resp' = Response(200, [success |-> TRUE, comments |-> comments,
                                    total |-> Len(comments)])
          /\ kvops' = <<Get(KeyOf(page), store[KeyOf(page)])>>
          /\ UNCHANGED <<store, clock>>

AdminModerate(defaultPage, data) ==
  IF KeyRejected(data.adminKey) THEN Unauthorized
  ELSE LET page == OrElse(data.page, Str(defaultPage))
           comments == ParseList(store[KeyOf(page)])
       IN /\ store' = [store EXCEPT
                         ![KeyOf(page)] =
                            JSONstringify(Moderated(comments, data.commentId, data.action))]
          /\ kvops' = <<Get(KeyOf(page), store[KeyOf(page)]),
                        Put(KeyOf(page), store'[KeyOf(page)])>>
          /\ resp' = Response(200, [success |-> TRUE,
                         message |-> "Comment " \o Template(data.action) \o "d successfully"])
          /\ UNCHANGED clock

onRequestGet_L233(keyParam, pageParam) == AdminList("general", keyParam, pageParam)

onRequestPost_L275(data) == AdminModerate("general", data)

onRequestGet_L329(keyParam, pageParam) == AdminList("homepage", keyParam, pageParam)

onRequestPost_L370(data) == AdminModerate("homepage", data)

(***************************************************************************)
(* The browser widget, js/comments.js (class CommentSystem).               *)
(***************************************************************************)
CharAt(s, i) == SubSeq(s, i, i)

\* \s of the regular expression, over the characters the inputs use
IsSpace(c) == c \in {" ", "\t", "\n", "\r", "\f"}

\* a character of the class [^\s@]
Plain(c) == ~IsSpace(c) /\ c # "@"

\* /^[^\s@]+@[^\s@]+\.[^\s@]+$/.test(email)
validateEmail(email) ==
  \E i \in 1..Len(email) : \E j \in 1..Len(email) :
     /\ 1 < i /\ i + 1 < j /\ j < Len(email)
     /\ CharAt(email, i) = "@"
     /\ CharAt(email, j) = "."
     /\ \A k \in 1..Len(email) : k # i => Plain(CharAt(email, k))

Notify(type, message) == [type |-> type, message |-> message]

\* showSuccess / showError after the fetch, from the parsed response
NotifyResult(result) ==
  IF result.body.success
  THEN Notify("success",
         "Thank you! Your comment has been submitted and will appear after review.")
  ELSE Notify("error", result.body.error)

\* the body the widget posts
FormData(form, pageName) ==
  [name |-> form.name, email |-> form.email, category |-> form.category,
   message |-> form.message, page |-> Str(pageName)]

\* submitComment(form) against the first (gen = 1) or second generation of POST
submitComment(form, pageName, gen, t) ==
  LET data == FormData(form, pageName)
  IN IF MissingRequired(data)
     THEN /\ notification' = Notify("error", "Please fill in all required fields")
          /\ UNCHANGED <<store, clock, resp, kvops>>
     ELSE IF ~validateEmail(data.email.v)
     THEN /\ notification' = Notify("error", "Please enter a valid email address")
          /\ UNCHANGED <<store, clock, resp, kvops>>
     ELSE /\ IF gen = 1 THEN onRequestPost_L37(data, t) ELSE onRequestPost_L149(data, t)
          /\ notification' = NotifyResult(resp')

(***************************************************************************)
(* Requests of the sequential specification: every handler runs to         *)
(* completion before the next request is taken.                            *)
(***************************************************************************)
ValidBody ==
  [name |-> Str("Ann"), email |-> Str("a@b.co"), category |-> Undefined,
   message |-> Str("hi")]

Absent == {Undefined, Str(""), Str(" ")}

\* the valid body, and every body that departs from it in one field
Bodies ==
  {ValidBody}
    \cup {[ValidBody EXCEPT !.name = x] : x \in Absent}
    \cup {[ValidBody EXCEPT !.email = x] : x \in Absent \cup {Str("not-an-email")}}
    \cup {[ValidBody EXCEPT !.message = x] : x \in Absent}
    \cup {[ValidBody EXCEPT !.category = Str("Report a Problem")]}

PostPages == {Undefined, Str("general")}
GetPages == {Null, Str("general")}

WithPage(body, page) ==
  [name |-> body.name, email |-> body.email, category |-> body.category,
   message |-> body.message, page |-> page]

\* readings the clock can give next
Readings == {t \in {clock, clock + 1} : t <= MaxClock}

CommentIds == {Str(ToString(i)) : i \in 0..MaxClock}
PostKeys == {Undefined, Str("guess"), ADMIN_KEY}
GetKeys == {Null, Str("guess"), ADMIN_KEY}
ModerateActions == {Str("approve"), Str("delete")}

\* every moderation with the right key; with a wrong or missing key, those of
\* the oldest comment id
ModerateBodies ==
  {d \in [adminKey : PostKeys, page : PostPages, commentId : CommentIds,
          action : ModerateActions] :
     StrictEq(d.adminKey, ADMIN_KEY) \/ d.commentId = Str("1")}

NoRequest == [op |-> "none"]

Quiet == UNCHANGED <<inflight, acked, hist>>

Init ==
  /\ store = [k \in Keys |-> Null]
  /\ clock = 1
  /\ req = NoRequest
  /\ resp = Response(0, [success |-> FALSE])
  /\ kvops = <<>>
  /\ notification = Notify("none", "")
  /\ inflight = <<>>
  /\ acked = <<>>
  /\ hist = <<>>

PublicGet1 ==
  \E page \in GetPages :
    /\ onRequestGet_L2(page)
    /\ req' = [op |-> "onRequestGet_L2", page |-> OrElse(page, Str("homepage"))]
    /\ UNCHANGED notification /\ Quiet

PublicGet2 ==
  \E page \in GetPages :
    /\ onRequestGet_L116(page)
    /\ req' = [op |-> "onRequestGet_L116", page |-> OrElse(page, Str("general"))]
    /\ UNCHANGED notification /\ Quiet

\* a direct POST /api/comments with a body of B and a clock reading of T, while
\* fewer than limit comments are stored
PublicPost1(B, T, limit) ==
  \E body \in B, page \in PostPages, t \in T :
    /\ MissingRequired(body) \/ TotalStored < limit
    /\ onRequestPost_L37(WithPage(body, page), t)
    /\ req' = [op |-> "onRequestPost_L37", data |-> WithPage(body, page),
               page |-> OrElse(page, Str("homepage"))]
    /\ UNCHANGED notification /\ Quiet

PublicPost2(B, T, limit) ==
  \E body \in B, page \in PostPages, t \in T :
    /\ MissingRequired(body) \/ TotalStored < limit
    /\ onRequestPost_L149(WithPage(body, page), t)
    /\ req' = [op |-> "onRequestPost_L149", data |-> WithPage(body, page),
               page |-> OrElse(page, Str("general"))]
    /\ UNCHANGED notification /\ Quiet

AdminGet1 ==
  \E key \in GetKeys, page \in GetPages :
    /\ onRequestGet_L233(key, page)
    /\ req' = [op |-> "onRequestGet_L233", key |-> key,
               page |-> OrElse(page, Str("general"))]
    /\ UNCHANGED notification /\ Quiet

AdminGet2 ==
  \E key \in GetKeys, page \in GetPages :
    /\ onRequestGet_L329(key, page)
    /\ req' = [op |-> "onRequestGet_L329", key |-> key,
               page |-> OrElse(page, Str("homepage"))]
    /\ UNCHANGED notification /\ Quiet

AdminPost1 ==
  \E data \in ModerateBodies :
    /\ onRequestPost_L275(data)
    /\ req' = [op |-> "onRequestPost_L275", key |-> data.adminKey, data |-> data,
               page |-> OrElse(data.page, Str("general"))]
    /\ UNCHANGED notification /\ Quiet

AdminPost2 ==
  \E data \in ModerateBodies :
    /\ onRequestPost_L370(data)
    /\ req' = [op |-> "onRequestPost_L370", key |-> data.adminKey, data |-> data,
               page |-> OrElse(data.page, Str("homepage"))]
    /\ UNCHANGED notification /\ Quiet

WidgetSubmit(B, T, limit) ==
  \E form \in B, pageName \in PageNames, gen \in {1, 2}, t \in T :
    /\ MissingRequired(form) \/ TotalStored < limit
    /\ submitComment(form, pageName, gen, t)
    /\ req' = [op |-> "submitComment", data |-> FormData(form, pageName),
               page |-> Str(pageName)]
    /\ Quiet

(***************************************************************************)
(* Spec: submission of well-formed comments, moderation and reads.         *)
(***************************************************************************)
Next ==
  \/ PublicGet1
  \/ PublicGet2
  \/ PublicPost1({ValidBody}, Readings, MaxStored)
  \/ PublicPost2({ValidBody}, Readings, MaxStored)
  \/ AdminGet1
  \/ AdminGet2
  \/ AdminPost1
  \/ AdminPost2

Spec == Init /\ [][Next]_vars

(***************************************************************************)
(* SpecValidate: submissions of every body of Bodies, directly and through *)
(* the widget.                                                             *)
(***************************************************************************)
NextValidate ==
  \/ PublicPost1(Bodies, {clock}, MaxSubmitted)
  \/ PublicPost2(Bodies, {clock}, MaxSubmitted)
  \/ WidgetSubmit(Bodies, {clock}, MaxSubmitted)
  \/ PublicGet1

SpecValidate == Init /\ [][NextValidate]_vars

(***************************************************************************)
(* SpecSeq: valid submits to one page, one after the other, the clock one  *)
(* millisecond further at each.                                            *)
(***************************************************************************)
SeqPage == Str("general")

SeqSubmit1 ==
  /\ Len(hist) < MaxSubmits
  /\ onRequestPost_L37(WithPage(ValidBody, SeqPage), clock + 1)
  /\ req' = [op |-> "onRequestPost_L37", data |-> WithPage(ValidBody, SeqPage),
             page |-> SeqPage]
  /\ hist' = Append(hist, [data |-> WithPage(ValidBody, SeqPage), t |-> clock + 1])
  /\ UNCHANGED <<notification, inflight, acked>>

SeqSubmit2 ==
  /\ Len(hist) < MaxSubmits
  /\ onRequestPost_L149(WithPage(ValidBody, SeqPage), clock + 1)
  /\ req' = [op |-> "onRequestPost_L149", data |-> WithPage(ValidBody, SeqPage),
             page |-> SeqPage]
  /\ hist' = Append(hist, [data |-> WithPage(ValidBody, SeqPage), t |-> clock + 1])
  /\ UNCHANGED <<notification, inflight, acked>>

NextSeq == SeqSubmit1 \/ SeqSubmit2

SpecSeq == Init /\ [][NextSeq]_vars

(***************************************************************************)
(* SpecCap: the sequential load with moderation of the two oldest comments *)
(* and public reads in between.                                            *)
(***************************************************************************)
OldestIds == {Str(ToString(2)), Str(ToString(3))}

CapSubmit ==
  /\ clock <= MaxSubmits
  /\ onRequestPost_L37(WithPage(ValidBody, SeqPage), clock + 1)
  /\ req' = [op |-> "onRequestPost_L37", data |-> WithPage(ValidBody, SeqPage),
             page |-> SeqPage]
  /\ UNCHANGED notification /\ Quiet

CapModerate ==
  \E commentId \in OldestIds, action \in ModerateActions :
    LET data == [adminKey |-> ADMIN_KEY, page |-> SeqPage,
                 commentId |-> commentId, action |-> action]
    IN /\ onRequestPost_L370(data)
       /\ req' = [op |-> "onRequestPost_L370", key |-> data.adminKey, data |-> data,
                  page |-> SeqPage]
       /\ UNCHANGED notification /\ Quiet

CapRead ==
  /\ onRequestGet_L2(SeqPage)
  /\ req' = [op |-> "onRequestGet_L2", page |-> SeqPage]
  /\ UNCHANGED notification /\ Quiet

NextCap == CapSubmit \/ CapModerate \/ CapRead

SpecCap == Init /\ [][NextCap]_vars

(***************************************************************************)
(* SpecConc: submits handled concurrently.  A handler runs without         *)
(* interruption up to its await of COMMENTS.get and again from there to    *)
(* its await of COMMENTS.put, so each request takes two steps.             *)
(***************************************************************************)
ConcBodies == {ValidBody, [ValidBody EXCEPT !.name = Str("Bob")]}

\* mutant: the put is made from the list as it is stored at the time of the put
LocalCopy_Fresh(slot) == ParseList(store[KeyOf(slot.page)])

\* const comments: the list the request parsed from its own get
LocalCopy(slot) == slot.comments

\* from the start of onRequestPost to the return of COMMENTS.get
ConcGet ==
  \E body \in ConcBodies, page \in PostPages, gen \in {1, 2} :
    LET data == WithPage(body, page)
        p == OrElse(page, IF gen = 1 THEN Str("homepage") ELSE Str("general"))
    IN /\ Len(inflight) < MaxInflight
       /\ Len(inflight) + Len(acked) < MaxConcurrent
       /\ ~MissingRequired(data)
       /\ inflight' = Append(inflight,
            [gen |-> gen, data |-> data, page |-> p,
             comments |-> ParseList(store[KeyOf(p)])])
       /\ kvops' = <<Get(KeyOf(p), store[KeyOf(p)])>>
       /\ UNCHANGED <<store, clock, req, resp, notification, acked, hist>>

\* from the return of COMMENTS.get to the response
ConcPut ==
  \E i \in 1..Len(inflight), t \in Readings :
    LET slot == inflight[i]
        newComment == NewComment(slot.data, t)
        body == IF slot.gen = 1
                THEN [success |-> TRUE, message |-> SubmittedMessage]
                ELSE [success |-> TRUE, message |-> SubmittedMessage,
                      comment |-> newComment]
    IN /\ store' = [store EXCEPT ![KeyOf(slot.page)] =
                      JSONstringify(Prepended(LocalCopy(slot), newComment))]
       /\ clock' = t
       /\ kvops' = <<Put(KeyOf(slot.page), store'[KeyOf(slot.page)])>>
       /\ resp' = Response(200, body)
       /\ req' = [op |-> IF slot.gen = 1 THEN "onRequestPost_L37"
                         ELSE "onRequestPost_L149",
                  data |-> slot.data, page |-> slot.page]
       /\ acked' = Append(acked, [page |-> slot.page, read |-> slot.comments,
                                  comment |-> newComment, status |-> resp'.status])
       /\ inflight' = SubSeq(inflight, 1, i - 1) \o SubSeq(inflight, i + 1, Len(inflight))
       /\ UNCHANGED <<notification, hist>>

NextConc == ConcGet \/ ConcPut

SpecConc == Init /\ [][NextConc]_vars

(***************************************************************************)
(* Vocabulary of the properties.                                           *)
(***************************************************************************)
PublicGetOps == {"onRequestGet_L2", "onRequestGet_L116"}
PublicPostOps == {"onRequestPost_L37", "onRequestPost_L149"}
AdminGetOps == {"onRequestGet_L233", "onRequestGet_L329"}
AdminPostOps == {"onRequestPost_L275", "onRequestPost_L370"}

\* the value is absent, or empty once leading and trailing whitespace is removed
Blank(x) == x.t # "string" \/ \A i \in 1..Len(x.v) : IsSpace(CharAt(x.v, i))

\* the value is absent or the empty string
Empty(x) == x.t # "string" \/ x.v = ""

\* the list with every email replaced by e
WithEmails(comments, e) ==
  [i \in 1..Len(comments) |-> [comments[i] EXCEPT !.email = e]]

\* C1: a comment a public submit stores has approved = false and replies = [],
\* and the comments of a public GET are exactly the approved comments of the
\* page's stored list, in stored order.
C1_PublicReadOnlyApproved ==
  /\ req.op \in PublicGetOps =>
       resp.body.comments = FilterApproved(StoredList(req.page))
  /\ (req.op \in PublicPostOps /\ resp.status = 200) =>
       /\ Head(StoredList(req.page)).approved = FALSE
       /\ Head(StoredList(req.page)).replies = <<>>

\* C2: the body of a public GET does not depend on the emails of the stored
\* comments: with every stored email replaced by another address the handler
\* answers the same, and no comment of the body has an email field.
C2_EmailNotExposed ==
  req.op \in PublicGetOps =>
    /\ \A i \in 1..Len(resp.body.comments) :
         "email" \notin DOMAIN resp.body.comments[i]
    /\ LET other == WithEmails(StoredList(req.page), Str("z@y.xw"))
       IN resp.body = IF req.op = "onRequestGet_L2" THEN ListBody_L2(other)
                      ELSE ListBody_L116(other)

\* what C3 asks of one step
C3_Step ==
  (req'.op \in AdminGetOps \cup AdminPostOps /\ req'.key # ADMIN_KEY) =>
    /\ resp' = [status |-> 401,
                body |-> [success |-> FALSE, error |-> "Unauthorized"]]
    /\ kvops' = <<>>
    /\ store' = store

\* C3: an admin GET or POST whose key is not the configured secret (a missing
\* key included) is answered 401 {success:false, error:"Unauthorized"}, issues
\* no COMMENTS operation and leaves every page's stored value as it was.
C3_AdminKeyRequired == [][C3_Step]_vars

\* C3 witness: a moderation without a key was refused while a comment is stored
C3_Witness ==
  /\ req.op = "onRequestPost_L370"
  /\ req.key = Undefined
  /\ resp.status = 401
  /\ TotalStored > 0

\* C4 as stated: a public submit with name, email or message missing, empty or
\* empty after trimming is answered 400 "Missing required fields" and issues no put.
C4_BlankRejected ==
  (/\ req.op \in PublicPostOps
   /\ Blank(req.data.name) \/ Blank(req.data.email) \/ Blank(req.data.message)) =>
    /\ resp = [status |-> 400,
               body |-> [success |-> FALSE, error |-> "Missing required fields"]]
    /\ kvops = <<>>

\* what C4 as amended asks of one step
C4_Step ==
  req'.op \in PublicPostOps =>
    IF Empty(req'.data.name) \/ Empty(req'.data.email) \/ Empty(req'.data.message)
    THEN /\ resp' = [status |-> 400,
                     body |-> [success |-> FALSE, error |-> "Missing required fields"]]
         /\ kvops' = <<>>
         /\ store' = store
    ELSE /\ resp'.status = 200
         /\ Len(kvops') = 2 /\ kvops'[2].op = "put"

\* C4 amended: a public submit is answered 400 "Missing required fields", with no
\* COMMENTS operation and the store unchanged, exactly when name, email or
\* message is missing or the empty string; a value of whitespace only is accepted.
C4_EmptyRejected == [][C4_Step]_vars

\* C4 witness: a submit with an empty message was refused while a comment is stored
C4_Witness ==
  /\ req.op = "onRequestPost_L37"
  /\ req.data.message = Str("")
  /\ resp.status = 400
  /\ TotalStored > 0

\* C5: a public submit whose email is not shaped local@domain.tld is refused and
\* stores nothing; one whose email has that shape, with the other required
\* fields present, is accepted and stored.
C5_BadEmailRejected ==
  (/\ req.op \in PublicPostOps
   /\ ~Empty(req.data.name) /\ ~Empty(req.data.email) /\ ~Empty(req.data.message)) =>
    IF validateEmail(req.data.email.v)
    THEN resp.status = 200 /\ Head(StoredList(req.page)).email = req.data.email
    ELSE resp.status = 400 /\ kvops = <<>>

\* the request r is a moderation carrying the configured key
Moderation(r) == r.op \in AdminPostOps /\ r.key = ADMIN_KEY

HasId(list, id) == \E i \in 1..Len(list) : list[i].id = id

\* the position of the first comment of the list with the id
FirstWithId(list, id) ==
  CHOOSE i \in 1..Len(list) :
    list[i].id = id /\ \A j \in 1..(i - 1) : list[j].id # id

\* how many entries of s equal c
CountEq(s, c) == Cardinality({i \in 1..Len(s) : s[i] = c})

\* got is list with some entries left out, none of them approved
ApprovedKeptInOrder(got, list) ==
  \E f \in [1..Len(got) -> 1..Len(list)] :
    /\ \A i \in 1..Len(got) : got[i] = list[f[i]]
    /\ \A i \in 1..Len(got) : \A j \in 1..Len(got) : i < j => f[i] < f[j]
    /\ \A n \in 1..Len(list) :
         list[n].approved => \E i \in 1..Len(got) : f[i] = n

OtherKeysKept(page) == \A k \in Keys : k # KeyOf(page) => store'[k] = store[k]

\* what C7 asks of one step
C7_Step ==
  /\ (/\ Moderation(req')
      /\ req'.data.action = Str("approve")
      /\ HasId(ParseList(store[KeyOf(req'.page)]), req'.data.commentId)) =>
       LET old == ParseList(store[KeyOf(req'.page)])
           new == ParseList(store'[KeyOf(req'.page)])
           k == FirstWithId(old, req'.data.commentId)
       IN /\ resp'.status = 200 /\ resp'.body.success
          /\ Len(new) = Len(old)
          /\ \A i \in 1..Len(old) :
               new[i] = IF i = k THEN [old[i] EXCEPT !.approved = TRUE] ELSE old[i]
          /\ OtherKeysKept(req'.page)
          /\ CountEq(ListBody_L2(new).comments, new[k]) >= 1
          /\ CountEq(ListBody_L116(new).comments, new[k]) >= 1
  /\ req'.op \in PublicGetOps =>
       /\ store' = store
       /\ resp'.status = 200
       /\ ApprovedKeptInOrder(resp'.body.comments, ParseList(store[KeyOf(req'.page)]))

\* C7: an approve of an id in the page's list is answered with success and sets
\* approved on the first comment with that id, every entry keeping its place;
\* the list a public GET then answers holds that comment; and the comments of
\* every public GET are the stored list, in stored order, with no approved
\* comment left out.
C7_ApproveThenListed == [][C7_Step]_vars

\* C7 witness: a public GET answered an approved comment out of a longer list
C7_Witness ==
  /\ req.op = "onRequestGet_L2"
  /\ Len(resp.body.comments) >= 1
  /\ Len(StoredList(req.page)) > Len(resp.body.comments)

\* what C8 asks of one step
C8_Step ==
  /\ Moderation(req') =>
       LET old == ParseList(store[KeyOf(req'.page)])
           new == ParseList(store'[KeyOf(req'.page)])
           id == req'.data.commentId
       IN /\ resp'.status = 200 /\ resp'.body.success
          /\ OtherKeysKept(req'.page)
          /\ ~HasId(old, id) => new = old
          /\ (HasId(old, id) /\ req'.data.action = Str("delete")) =>
               LET k == FirstWithId(old, id)
               IN /\ Len(new) = Len(old) - 1
                  /\ \A i \in 1..Len(new) :
                       new[i] = IF i < k THEN old[i] ELSE old[i + 1]
                  /\ CountEq(new, old[k]) = CountEq(old, old[k]) - 1
                  /\ CountEq(ListBody_L2(new).comments, old[k]) =
                       CountEq(ListBody_L2(old).comments, old[k])
                         - (IF old[k].approved THEN 1 ELSE 0)
                  /\ CountEq(ListBody_L116(new).comments, old[k]) =
                       CountEq(ListBody_L116(old).comments, old[k]) - 1
  /\ (req'.op \in AdminGetOps /\ req'.key = ADMIN_KEY) =>
       /\ store' = store
       /\ resp'.status = 200
       /\ resp'.body.comments = ParseList(store[KeyOf(req'.page)])
       /\ resp'.body.total = Len(ParseList(store[KeyOf(req'.page)]))

\* C8: a delete of an id in the page's list removes the first comment with that
\* id and keeps the others in order, so that the admin list and the public list
\* hold one entry fewer of it; a delete or approve of an id that is not in the
\* list leaves the list as it was; each is answered 200 with success:true.  An
\* admin GET answers the whole stored list and its length.
C8_DeleteFrame == [][C8_Step]_vars

\* C8 witness: a delete took one comment out of a list and left another behind
C8_Witness ==
  /\ Moderation(req)
  /\ req.data.action = Str("delete")
  /\ Len(kvops) = 2
  /\ Len(ParseList(kvops[2].value)) = Len(ParseList(kvops[1].value)) - 1
  /\ Len(ParseList(kvops[2].value)) >= 1

\* C8 witness, second case: a delete of an id that is not in a non-empty list
C8_WitnessAbsent ==
  /\ Moderation(req)
  /\ req.data.action = Str("delete")
  /\ Len(kvops) = 2
  /\ ~HasId(ParseList(kvops[1].value), req.data.commentId)
  /\ Len(ParseList(kvops[1].value)) >= 1
  /\ resp.status = 200

\* C6: after n such submits to the empty page the stored list is the
\* min(n, 100) latest of them, the newest at index 0; its length never passes 100.
C6_NewestHundred ==
  LET n == Len(hist)
      list == StoredList(SeqPage)
  IN /\ Len(list) = (IF n < 100 THEN n ELSE 100)
     /\ \A i \in 1..Len(list) :
          /\ list[i].id = Str(ToString(hist[n - i + 1].t))
          /\ list[i].name = hist[n - i + 1].data.name
          /\ list[i].email = hist[n - i + 1].data.email
          /\ list[i].message = hist[n - i + 1].data.message
          /\ list[i].approved = FALSE

\* C6 witness: 105 submits were made and 100 comments are stored
C6_Witness == Len(hist) = 105 /\ Len(StoredList(SeqPage)) = 100

\* the same comment, whatever its approved flag
SameComment(a, b) == [a EXCEPT !.approved = FALSE] = [b EXCEPT !.approved = FALSE]

Kept(c, list) == \E j \in 1..Len(list) : SameComment(list[j], c)

\* the step is a successful admin delete of the id on the page stored at key k
DeletedBy(r, k, id) ==
  /\ Moderation(r)
  /\ KeyOf(r.page) = k
  /\ r.data.action = Str("delete")
  /\ r.data.commentId = id

\* what C9 as stated asks of one step
C9_StepOriginal ==
  \A k \in Keys :
    \/ store'[k] = store[k]
    \/ \A i \in 1..Len(ParseList(store[k])) :
         LET c == ParseList(store[k])[i]
         IN Kept(c, ParseList(store'[k])) \/ DeletedBy(req', k, c.id)

\* C9 as stated: a stored comment is in the page's list after every request
\* that is not an admin delete of its id.
C9_OnlyDeleteRemoves == [][C9_StepOriginal]_vars

\* what C9 as amended asks of one step
C9_StepAmended ==
  \A k \in Keys :
    \/ store'[k] = store[k]
    \/ \A i \in 1..Len(ParseList(store[k])) :
         LET c == ParseList(store[k])[i]
         IN \/ Kept(c, ParseList(store'[k]))
            \/ DeletedBy(req', k, c.id)
            \/ /\ req'.op \in PublicPostOps
               /\ KeyOf(req'.page) = k
               /\ resp'.status = 200
               /\ i >= 100

\* C9 amended: a request handled on its own removes a stored comment only if
\* it is an admin delete of the comment's id, or a submit to the page made
\* while the comment is the 100th entry of the list.
C9_DeleteOrCapRemoves == [][C9_StepAmended]_vars

\* C9 witness: a submit to a list of 100 left a list of 100
C9_Witness ==
  /\ req.op \in PublicPostOps
  /\ Len(kvops) = 2
  /\ Len(ParseList(kvops[1].value)) = 100
  /\ Len(ParseList(kvops[2].value)) = 100

\* C10: whenever two submits answered with success, one right after the other,
\* had read the same list of the same page, the stored list is that list with
\* the later comment alone put in front: the earlier comment is not added.
C10_LostUpdate ==
  \A n \in 2..Len(acked) :
    (/\ n = Len(acked)
     /\ acked[n - 1].page = acked[n].page
     /\ acked[n - 1].read = acked[n].read
     /\ Len(acked[n].read) < 99) =>
      /\ acked[n - 1].status = 200 /\ acked[n].status = 200
      /\ StoredList(acked[n].page) = <<acked[n].comment>> \o acked[n].read
      /\ Len(StoredList(acked[n].page)) = Len(acked[n].read) + 1

\* C10 witness: two acknowledged submits of different comments read the same
\* list, and the stored list holds the later one only
C10_Witness ==
  /\ Len(acked) = 2
  /\ inflight = <<>>
  /\ acked[1].page = acked[2].page
  /\ acked[1].read = acked[2].read
  /\ acked[1].status = 200 /\ acked[2].status = 200
  /\ acked[1].comment # acked[2].comment
  /\ CountEq(StoredList(acked[2].page), acked[2].comment) = 1
  /\ CountEq(StoredList(acked[2].page), acked[1].comment) = 0

\* C11: the ids of the comments of a page's stored list are pairwise distinct,
\* also after two submits handled at the same clock reading, so that the list
\* an approve or delete by id reads holds exactly one comment with that id.
C11_IdsDistinct ==
  /\ \A k \in Keys :
       \A i \in 1..Len(ParseList(store[k])) : \A j \in 1..Len(ParseList(store[k])) :
         i # j => ParseList(store[k])[i].id # ParseList(store[k])[j].id
  /\ (Moderation(req) /\ Len(kvops) = 2
        /\ HasId(ParseList(kvops[1].value), req.data.commentId)) =>
       Cardinality({i \in 1..Len(ParseList(kvops[1].value)) :
                      ParseList(kvops[1].value)[i].id = req.data.commentId}) = 1

====
